---------------------------- MODULE Spec2Model ----------------------------
(***************************************************************************)
(* iso-countries-utils: the index construction and the query API of        *)
(* src/src/index.ts, the flag derivation of src/src/utils.ts and the       *)
(* enriched dataset of database.ts (src/unnamed/part_000).                 *)
(*                                                                         *)
(* A string is a sequence of character codes (ASCII): "TW" is <<84, 87>>.  *)
(* A flag is a sequence of Unicode codepoints.  A value that may be        *)
(* undefined is a sequence of length at most one: <<>> is undefined and    *)
(* <<v>> is the value v.  A Map is a function from its keys to its values. *)
(***************************************************************************)
EXTENDS Integers, Sequences, FiniteSets, TLC

VARIABLES
    rawCountries,   \* raw-data.ts: the static dataset, in dataset order
    countries,      \* database.ts: the dataset enriched with flags
    alpha2Map,      \* index.ts:4
    alpha3Map,      \* index.ts:5
    numericMap,     \* index.ts:6
    searchIndex,    \* index.ts:7
    pc,             \* "idle": no query is running; "returned": one has returned
    call,           \* the query that returned: [fn, arg]
    result          \* what it returned

vars == <<rawCountries, countries, alpha2Map, alpha3Map, numericMap,
          searchIndex, pc, call, result>>

(***************************************************************************)
(* Bounds of the model.                                                    *)
(***************************************************************************)
MaxCountries == 3   \* records in a dataset
MaxQueryLen == 2    \* length of the name fragments given to the name queries

(***************************************************************************)
(* Strings: String.prototype.toUpperCase / toLowerCase / includes /        *)
(* indexOf on ASCII strings.                                               *)
(***************************************************************************)
toUpperCaseChar(c) == IF c \in 97..122 THEN c - 32 ELSE c

toLowerCaseChar(c) == IF c \in 65..90 THEN c + 32 ELSE c

toUpperCase(s) == [i \in 1..Len(s) |-> toUpperCaseChar(s[i])]

toLowerCase(s) == [i \in 1..Len(s) |-> toLowerCaseChar(s[i])]

\* the 0-based positions at which q occurs in s
Occurrences(s, q) ==
    {i \in 0..(Len(s) - Len(q)) : SubSeq(s, i + 1, i + Len(q)) = q}

includes(s, q) == Occurrences(s, q) # {}

indexOf(s, q) ==
    IF Occurrences(s, q) = {} THEN -1
    ELSE CHOOSE i \in Occurrences(s, q) : \A j \in Occurrences(s, q) : i <= j

(***************************************************************************)
(* utils.ts: getFlagEmoji.                                                 *)
(***************************************************************************)
\* a slip: the code is not put in upper case
getFlagEmoji_AsGiven(alpha2) == [i \in 1..Len(alpha2) |-> 127397 + alpha2[i]]

getFlagEmoji(alpha2) ==
    LET upper == toUpperCase(alpha2)
    IN  [i \in 1..Len(upper) |-> 127397 + upper[i]]

(***************************************************************************)
(* raw-data.ts: records in the shape of BaseCountryData.  RawPool holds    *)
(* records whose keys and names are unique and whose codes are uppercase,  *)
(* as the dataset's are.  DupPool holds hypothetical records that share    *)
(* one key, or the name up to case, with a record of RawPool.              *)
(***************************************************************************)
Raw(name, alpha2, alpha3, numeric) ==
    [name |-> name, alpha2 |-> alpha2, alpha3 |-> alpha3, numeric |-> numeric]

RawPool ==
    { Raw(<<77,97,108,105>>,             <<77,76>>, <<77,76,73>>, <<52,54,54>>),  \* Mali ML MLI 466
      Raw(<<73,114,97,110>>,             <<73,82>>, <<73,82,78>>, <<51,54,52>>),  \* Iran IR IRN 364
      Raw(<<73,114,97,113>>,             <<73,81>>, <<73,82,81>>, <<51,54,56>>),  \* Iraq IQ IRQ 368
      Raw(<<73,110,100,105,97>>,         <<73,78>>, <<73,78,68>>, <<51,53,54>>),  \* India IN IND 356
      Raw(<<83,111,109,97,108,105,97>>,  <<83,79>>, <<83,79,77>>, <<55,48,54>>) } \* Somalia SO SOM 706

DupPool ==
    { Raw(<<80,101,114,115,105,97>>,     <<73,82>>, <<80,69,82>>, <<57,48,49>>),  \* Persia IR PER 901
      Raw(<<69,114,97,110>>,             <<69,82>>, <<73,82,78>>, <<57,48,50>>),  \* Eran ER IRN 902
      Raw(<<83,117,100,97,110>>,         <<83,68>>, <<83,68,78>>, <<52,54,54>>),  \* Sudan SD SDN 466
      Raw(<<77,65,76,73>>,               <<77,88>>, <<77,88,76>>, <<57,48,51>>) } \* MALI MX MXL 903

AllPool == RawPool \cup DupPool

\* the hypothetical datasets are drawn from the records that take part in a clash
AnyPool == {r \in RawPool : \E d \in DupPool :
                \/ r.alpha2 = d.alpha2 \/ r.alpha3 = d.alpha3
                \/ r.numeric = d.numeric
                \/ toLowerCase(r.name) = toLowerCase(d.name)} \cup DupPool

\* the non-empty sequences of at most n distinct records of pool
Datasets(pool, n) ==
    {ds \in UNION {[1..k -> pool] : k \in 1..n} :
        \A i, j \in 1..Len(ds) : ds[i] = ds[j] => i = j}

(***************************************************************************)
(* database.ts: countries = rawCountries.map(data => ({...data, flag})).   *)
(***************************************************************************)
Country(data) ==
    [name |-> data.name, alpha2 |-> data.alpha2, alpha3 |-> data.alpha3,
     numeric |-> data.numeric, flag |-> getFlagEmoji(data.alpha2)]

BuildCountries(raw) == [i \in 1..Len(raw) |-> Country(raw[i])]

(***************************************************************************)
(* index.ts:4-16: the indexes.                                             *)
(***************************************************************************)
EmptyMap == <<>>

MapSet(m, k, v) == [x \in (DOMAIN m) \cup {k} |-> IF x = k THEN v ELSE m[x]]

MapHas(m, k) == k \in DOMAIN m

MapGet(m, k) == IF k \in DOMAIN m THEN <<m[k]>> ELSE <<>>

\* a slip: a key that is in the map already is not set again
RECURSIVE BuildMap_FirstWins(_, _, _)
BuildMap_FirstWins(cs, field, n) ==
    IF n = 0 THEN EmptyMap
    ELSE LET m == BuildMap_FirstWins(cs, field, n - 1)
         IN  IF MapHas(m, cs[n][field]) THEN m ELSE MapSet(m, cs[n][field], cs[n])

\* countries.forEach(country => map.set(country[field], country)), the first n records
RECURSIVE BuildMap(_, _, _)
BuildMap(cs, field, n) ==
    IF n = 0 THEN EmptyMap
    ELSE MapSet(BuildMap(cs, field, n - 1), cs[n][field], cs[n])

BuildSearchIndex(cs) ==
    [i \in 1..Len(cs) |-> [original |-> cs[i], lowerName |-> toLowerCase(cs[i].name)]]


(***************************************************************************)
(* index.ts:28-103: the lookups by code and the emoji getters.             *)
(***************************************************************************)
getCountryByAlpha2(alpha2) == MapGet(alpha2Map, toUpperCase(alpha2))

\* a slip: the code is looked up as given
getCountryByAlpha3_AsGiven(alpha3) == MapGet(alpha3Map, alpha3)

getCountryByAlpha3(alpha3) == MapGet(alpha3Map, toUpperCase(alpha3))

getCountryByNumeric(numeric) == MapGet(numericMap, numeric)

\* country?.flag
OptionalFlag(country) == IF country = <<>> THEN <<>> ELSE <<country[1].flag>>

getEmojiByAlpha2(alpha2) == OptionalFlag(getCountryByAlpha2(alpha2))

\* a slip: the alpha-2 lookup is called
getEmojiByAlpha3_ViaAlpha2(alpha3) == OptionalFlag(getCountryByAlpha2(alpha3))

getEmojiByAlpha3(alpha3) == OptionalFlag(getCountryByAlpha3(alpha3))

getEmojiByNumeric(numeric) == OptionalFlag(getCountryByNumeric(numeric))

(***************************************************************************)
(* index.ts:115-120: getCountryByName.  Array.prototype.find returns the   *)
(* first element the predicate accepts, or undefined.                      *)
(***************************************************************************)
NameMatches(name) ==
    {i \in 1..Len(countries) : toLowerCase(countries[i].name) = toLowerCase(name)}

\* a slip: findLast in place of find
getCountryByName_LastMatch(name) ==
    IF name = <<>> \/ NameMatches(name) = {} THEN <<>>
    ELSE <<countries[CHOOSE i \in NameMatches(name) :
                        \A j \in NameMatches(name) : j <= i]>>

\* a slip: the names are compared as written
getCountryByName_CaseSensitive(name) ==
    LET S == {i \in 1..Len(countries) : countries[i].name = name}
    IN  IF name = <<>> \/ S = {} THEN <<>>
        ELSE <<countries[CHOOSE i \in S : \A j \in S : i <= j]>>

getCountryByName(name) ==
    IF name = <<>> THEN <<>>
    ELSE IF NameMatches(name) = {} THEN <<>>
    ELSE <<countries[CHOOSE i \in NameMatches(name) :
                        \A j \in NameMatches(name) : i <= j]>>

(***************************************************************************)
(* index.ts:132-146: searchByName.  filter makes a new array, sort orders  *)
(* that array in place and returns it; Array.prototype.sort is stable      *)
(* (ECMAScript 2019).                                                      *)
(***************************************************************************)
\* a slip: the comparator without the tie-break on the length
compare_PositionOnly(a, b, query) ==
    indexOf(a.lowerName, query) - indexOf(b.lowerName, query)

\* the comparator of index.ts:137-144
compare(a, b, query) ==
    LET indexA == indexOf(a.lowerName, query)
        indexB == indexOf(b.lowerName, query)
    IN  IF indexA = indexB
        THEN Len(a.lowerName) - Len(b.lowerName)
        ELSE indexA - indexB

\* a sort that is not stable: x is put before the elements it is tied with
Insert_BeforeTies(s, x, query) ==
    LET k == Cardinality({i \in 1..Len(s) : compare(s[i], x, query) < 0})
    IN  SubSeq(s, 1, k) \o <<x>> \o SubSeq(s, k + 1, Len(s))

\* x put into the sorted array s behind every element that does not come after it
Insert(s, x, query) ==
    LET k == Cardinality({i \in 1..Len(s) : compare(s[i], x, query) <= 0})
    IN  SubSeq(s, 1, k) \o <<x>> \o SubSeq(s, k + 1, Len(s))

\* the first n elements of arr, sorted
RECURSIVE SortPrefix(_, _, _)
SortPrefix(arr, n, query) ==
    IF n = 0 THEN <<>>
    ELSE Insert(SortPrefix(arr, n - 1, query), arr[n], query)

sort(arr, query) == SortPrefix(arr, Len(arr), query)

\* a slip: startsWith in place of includes
filter_StartsWith(arr, query) ==
    SelectSeq(arr, LAMBDA item : indexOf(item.lowerName, query) = 0)

filter(arr, query) == SelectSeq(arr, LAMBDA item : includes(item.lowerName, query))

Originals(arr) == [i \in 1..Len(arr) |-> arr[i].original]

\* a slip: the search index is sorted in place, then filtered
searchByName_SortsIndex(name) ==
    IF name = <<>> THEN [ret |-> <<>>, index |-> searchIndex]
    ELSE LET query == toLowerCase(name)
             sorted == sort(searchIndex, query)
         IN  [ret |-> Originals(filter(sorted, query)), index |-> sorted]

\* ret: the array returned; index: searchIndex as the call leaves it
searchByName(name) ==
    IF name = <<>> THEN [ret |-> <<>>, index |-> searchIndex]
    ELSE LET query == toLowerCase(name)
             filtered == filter(searchIndex, query)
         IN  [ret |-> Originals(sort(filtered, query)), index |-> searchIndex]

(***************************************************************************)
(* index.ts:157-172: the validators.                                       *)
(***************************************************************************)
\* a slip: the code is looked up as given
isValidAlpha2_AsGiven(code) == MapHas(alpha2Map, code)

isValidAlpha2(code) == MapHas(alpha2Map, toUpperCase(code))

isValidAlpha3(code) == MapHas(alpha3Map, toUpperCase(code))

(***************************************************************************)
(* The arguments the queries are called with.                              *)
(***************************************************************************)
\* every spelling of s in upper and lower case letters
CaseVariants(s) ==
    {[i \in 1..Len(s) |-> IF i \in U THEN toUpperCaseChar(s[i]) ELSE toLowerCaseChar(s[i])] :
        U \in SUBSET (1..Len(s))}

\* the fragments of s of length 1..n
Fragments(s, n) ==
    {SubSeq(s, p[1], p[1] + p[2] - 1) :
        p \in {q \in (1..Len(s)) \X (1..n) : q[1] + q[2] - 1 <= Len(s)}}

Alpha2Args ==
    (UNION {CaseVariants(r.alpha2) : r \in AllPool})
        \cup {<<>>, <<88,88>>, <<90,90>>, <<73,82,78>>}          \* "", XX, ZZ, IRN

Alpha3Args ==
    (UNION {CaseVariants(r.alpha3) : r \in AllPool})
        \cup {<<>>, <<88,89,90>>, <<88,88,89>>, <<73,82>>}       \* "", XYZ, XXY, IR

NumericArgs ==
    {r.numeric : r \in AllPool} \cup {<<>>, <<48,48,48>>, <<52,54>>}   \* "", 000, 46

\* a name as written, in lower case and in upper case
Spellings(s) == {s, toLowerCase(s), toUpperCase(s)}

NameArgs ==
    (UNION {Spellings(r.name) : r \in AllPool})
        \cup (UNION {Spellings(f) : f \in UNION {Fragments(r.name, MaxQueryLen) : r \in AllPool}})
        \cup {<<>>, <<122,122>>, <<32>>}                            \* "", zz, " "

(***************************************************************************)
(* The state machine: the module is loaded (Init), then queries are        *)
(* called one at a time.                                                   *)
(***************************************************************************)
NoCall == [fn |-> "none", arg |-> <<>>]

Loaded(raw) ==
    /\ rawCountries = raw
    /\ countries = BuildCountries(raw)
    /\ alpha2Map = BuildMap(BuildCountries(raw), "alpha2", Len(raw))
    /\ alpha3Map = BuildMap(BuildCountries(raw), "alpha3", Len(raw))
    /\ numericMap = BuildMap(BuildCountries(raw), "numeric", Len(raw))
    /\ searchIndex = BuildSearchIndex(BuildCountries(raw))
    /\ pc = "idle"
    /\ call = NoCall
    /\ result = <<>>

Init == \E raw \in Datasets(RawPool, MaxCountries) : Loaded(raw)

InitAny == \E raw \in Datasets(AnyPool, MaxCountries) : Loaded(raw)

data == <<rawCountries, countries, alpha2Map, alpha3Map, numericMap>>

Returns(fn, arg, value) ==
    /\ pc' = "returned"
    /\ call' = [fn |-> fn, arg |-> arg]
    /\ result' = value

CallGetCountryByAlpha2 ==
    /\ pc = "idle"
    /\ \E code \in Alpha2Args :
           /\ Returns("getCountryByAlpha2", code, getCountryByAlpha2(code))
           /\ UNCHANGED <<data, searchIndex>>

CallGetCountryByAlpha3 ==
    /\ pc = "idle"
    /\ \E code \in Alpha3Args :
           /\ Returns("getCountryByAlpha3", code, getCountryByAlpha3(code))
           /\ UNCHANGED <<data, searchIndex>>

CallGetCountryByNumeric ==
    /\ pc = "idle"
    /\ \E code \in NumericArgs :
           /\ Returns("getCountryByNumeric", code, getCountryByNumeric(code))
           /\ UNCHANGED <<data, searchIndex>>

CallGetEmojiByAlpha2 ==
    /\ pc = "idle"
    /\ \E code \in Alpha2Args :
           /\ Returns("getEmojiByAlpha2", code, getEmojiByAlpha2(code))
           /\ UNCHANGED <<data, searchIndex>>

CallGetEmojiByAlpha3 ==
    /\ pc = "idle"
    /\ \E code \in Alpha3Args :
           /\ Returns("getEmojiByAlpha3", code, getEmojiByAlpha3(code))
           /\ UNCHANGED <<data, searchIndex>>

CallGetEmojiByNumeric ==
    /\ pc = "idle"
    /\ \E code \in NumericArgs :
           /\ Returns("getEmojiByNumeric", code, getEmojiByNumeric(code))
           /\ UNCHANGED <<data, searchIndex>>

CallGetCountryByName ==
    /\ pc = "idle"
    /\ \E name \in NameArgs :
           /\ Returns("getCountryByName", name, getCountryByName(name))
           /\ UNCHANGED <<data, searchIndex>>

CallSearchByName ==
    /\ pc = "idle"
    /\ \E name \in NameArgs :
           /\ Returns("searchByName", name, searchByName(name).ret)
           /\ searchIndex' = searchByName(name).index
           /\ UNCHANGED data

CallIsValidAlpha2 ==
    /\ pc = "idle"
    /\ \E code \in Alpha2Args :
           /\ Returns("isValidAlpha2", code, isValidAlpha2(code))
           /\ UNCHANGED <<data, searchIndex>>

CallIsValidAlpha3 ==
    /\ pc = "idle"
    /\ \E code \in Alpha3Args :
           /\ Returns("isValidAlpha3", code, isValidAlpha3(code))
           /\ UNCHANGED <<data, searchIndex>>

\* the caller takes the result; the next query can be called
Return ==
    /\ pc = "returned"
    /\ pc' = "idle"
    /\ call' = NoCall
    /\ result' = <<>>
    /\ UNCHANGED <<data, searchIndex>>

Next ==
    \/ CallGetCountryByAlpha2
    \/ CallGetCountryByAlpha3
    \/ CallGetCountryByNumeric
    \/ CallGetEmojiByAlpha2
    \/ CallGetEmojiByAlpha3
    \/ CallGetEmojiByNumeric
    \/ CallGetCountryByName
    \/ CallSearchByName
    \/ CallIsValidAlpha2
    \/ CallIsValidAlpha3
    \/ Return

\* the dataset as it is: unique keys, unique names, uppercase codes
Spec == Init /\ [][Next]_vars

\* a hypothetical dataset in which records share a key or a name
SpecAny == InitAny /\ [][Next]_vars

(***************************************************************************)
(* The flag derivation on its own: getFlagEmoji applied to every code of   *)
(* two ASCII letters.                                                      *)
(***************************************************************************)
Letters == (65..90) \cup (97..122)

TwoLetterCodes == [1..2 -> Letters]

CallGetFlagEmoji ==
    /\ pc = "idle"
    /\ \E code \in TwoLetterCodes :
           /\ Returns("getFlagEmoji", code, getFlagEmoji(code))
           /\ UNCHANGED <<data, searchIndex>>

NextFlag ==
    \/ CallGetFlagEmoji
    \/ Return

SpecFlag == Init /\ [][NextFlag]_vars

(***************************************************************************)
(* What the properties are stated with.                                    *)
(***************************************************************************)
Returned(fn) == pc = "returned" /\ call.fn = fn

\* the positions of the records whose field is key
RecordsWith(field, key) == {i \in 1..Len(countries) : countries[i][field] = key}

Last(S) == CHOOSE i \in S : \A j \in S : j <= i

First(S) == CHOOSE i \in S : \A j \in S : i <= j

\* no two records share an alpha2, an alpha3 or a numeric code; codes are uppercase
KeysUniqueUppercase ==
    /\ \A i, j \in 1..Len(countries) :
           (\/ countries[i].alpha2 = countries[j].alpha2
            \/ countries[i].alpha3 = countries[j].alpha3
            \/ countries[i].numeric = countries[j].numeric) => i = j
    /\ \A i \in 1..Len(countries) :
           /\ \A k \in 1..Len(countries[i].alpha2) : countries[i].alpha2[k] \in 65..90
           /\ \A k \in 1..Len(countries[i].alpha3) : countries[i].alpha3[k] \in 65..90

\* the record at position i, found; undefined when S is empty
OnlyRecord(S) == IF S = {} THEN <<>> ELSE <<countries[First(S)]>>

\* two letters that are equal up to case
SameLetter(c, d) == c = d \/ (c \in 65..90 /\ d = c + 32) \/ (d \in 65..90 /\ c = d + 32)

\* q occurs in s at the 0-based position p, up to case
OccursAt(s, q, p) ==
    /\ p + Len(q) <= Len(s)
    /\ \A k \in 1..Len(q) : SameLetter(s[p + k], q[k])

ContainsFragment(s, q) == \E p \in 0..Len(s) : OccursAt(s, q, p)

\* the 0-based position of the first occurrence of q in s, up to case
MatchPos(s, q) == First({p \in 0..Len(s) : OccursAt(s, q, p)})

\* the position in the dataset of a record of the dataset
DatasetPos(r) == First({i \in 1..Len(countries) : countries[i] = r})

(***************************************************************************)
(* C1.  With unique, uppercase keys: a lookup by code returns the record   *)
(* whose key is the uppercased code (for numeric, the code as given) and   *)
(* undefined when no record has that key; every spelling in upper and      *)
(* lower case of a record's alpha2 or alpha3 finds that record, and the    *)
(* record found is the one its own alpha3 and numeric lead to.             *)
(***************************************************************************)
FoundThroughOwnCodes(r) ==
    /\ getCountryByAlpha2(r.alpha2) = <<r>>
    /\ getCountryByAlpha3(r.alpha3) = <<r>>
    /\ getCountryByNumeric(r.numeric) = <<r>>

C1_LookupByCode ==
    KeysUniqueUppercase =>
        /\ \A i \in 1..Len(countries) :
               /\ \A c \in CaseVariants(countries[i].alpha2) :
                      getCountryByAlpha2(c) = <<countries[i]>>
               /\ \A c \in CaseVariants(countries[i].alpha3) :
                      getCountryByAlpha3(c) = <<countries[i]>>
               /\ getCountryByNumeric(countries[i].numeric) = <<countries[i]>>
        /\ Returned("getCountryByAlpha2") =>
               /\ result = OnlyRecord(RecordsWith("alpha2", toUpperCase(call.arg)))
               /\ result # <<>> => FoundThroughOwnCodes(result[1])
        /\ Returned("getCountryByAlpha3") =>
               /\ result = OnlyRecord(RecordsWith("alpha3", toUpperCase(call.arg)))
               /\ result # <<>> => FoundThroughOwnCodes(result[1])
        /\ Returned("getCountryByNumeric") =>
               /\ result = OnlyRecord(RecordsWith("numeric", call.arg))
               /\ result # <<>> => FoundThroughOwnCodes(result[1])

\* getCountryByAlpha3("iRn") has returned Iran, the second record of the dataset
C1_Witness ==
    /\ Returned("getCountryByAlpha3")
    /\ call.arg = <<105,82,110>>
    /\ Len(countries) >= 2
    /\ result = <<countries[2]>>
    /\ countries[2].alpha3 = <<73,82,78>>

(***************************************************************************)
(* C2.  An emoji getter returns the flag of the record the matching        *)
(* lookup finds, and undefined when the code is not a key of the dataset.  *)
(***************************************************************************)
FlagOf(found, field, key) ==
    IF found = <<>>
    THEN result = <<>> /\ RecordsWith(field, key) = {}
    ELSE result = <<found[1].flag>> /\ RecordsWith(field, key) # {}

C2_EmojiIsFlagOfLookup ==
    /\ Returned("getEmojiByAlpha2") =>
           FlagOf(getCountryByAlpha2(call.arg), "alpha2", toUpperCase(call.arg))
    /\ Returned("getEmojiByAlpha3") =>
           FlagOf(getCountryByAlpha3(call.arg), "alpha3", toUpperCase(call.arg))
    /\ Returned("getEmojiByNumeric") =>
           FlagOf(getCountryByNumeric(call.arg), "numeric", call.arg)

\* getEmojiByAlpha3("irn") has returned the flag of Iran: the regional indicators I, R
C2_Witness ==
    /\ Returned("getEmojiByAlpha3")
    /\ call.arg = <<105,114,110>>
    /\ result = <<(<<127462 + 8, 127462 + 17>>)>>

(***************************************************************************)
(* C3.  A validator is true exactly when the matching lookup finds a       *)
(* record, and gives the same answer for every spelling of the code in     *)
(* upper and lower case.                                                   *)
(***************************************************************************)
C3_ValidIffFound ==
    /\ Returned("isValidAlpha2") =>
           /\ result = (getCountryByAlpha2(call.arg) # <<>>)
           /\ \A c \in CaseVariants(call.arg) :
                  result = (getCountryByAlpha2(c) # <<>>)
    /\ Returned("isValidAlpha3") =>
           /\ result = (getCountryByAlpha3(call.arg) # <<>>)
           /\ \A c \in CaseVariants(call.arg) :
                  result = (getCountryByAlpha3(c) # <<>>)

\* isValidAlpha3("irQ") has returned true
C3_Witness ==
    /\ Returned("isValidAlpha3")
    /\ call.arg = <<105,114,81>>
    /\ result = TRUE

(***************************************************************************)
(* C4.  searchByName("") is empty; for a non-empty query the result holds  *)
(* only records whose name contains the query up to case, and holds every  *)
(* such record of the dataset exactly once.                                *)
(***************************************************************************)
Matching(q) == {i \in 1..Len(countries) : ContainsFragment(countries[i].name, q)}

C4_SearchFindsExactlyTheMatches ==
    Returned("searchByName") =>
        IF call.arg = <<>> THEN result = <<>>
        ELSE /\ \A k \in 1..Len(result) : ContainsFragment(result[k].name, call.arg)
             /\ \A i \in Matching(call.arg) :
                    Cardinality({k \in 1..Len(result) : result[k] = countries[i]}) = 1
             /\ Len(result) = Cardinality(Matching(call.arg))
             /\ (result = <<>>) = (Matching(call.arg) = {})

\* searchByName("AL") has returned two records of a dataset of three: the query is
\* found inside Mali and Somalia in another case, and the third record is left out
C4_Witness ==
    /\ Returned("searchByName")
    /\ call.arg = <<65,76>>
    /\ Len(countries) = 3
    /\ Len(result) = 2

(***************************************************************************)
(* C5.  The result of searchByName is ordered by the position of the first *)
(* occurrence of the query in the name, up to case, and among equal        *)
(* positions by the length of the name.                                    *)
(***************************************************************************)
\* the record a does not come after the record b
RankLeq(a, b, q) ==
    \/ MatchPos(a.name, q) < MatchPos(b.name, q)
    \/ /\ MatchPos(a.name, q) = MatchPos(b.name, q)
       /\ Len(a.name) <= Len(b.name)

C5_SearchIsRanked ==
    (Returned("searchByName") /\ call.arg # <<>>) =>
        /\ \A i, j \in 1..Len(result) :
               i < j => RankLeq(result[i], result[j], call.arg)
        /\ \A j \in 1..Len(result) :
               MatchPos(result[1].name, call.arg) <= MatchPos(result[j].name, call.arg)

\* searchByName("I") on the dataset India, Mali, Iran has returned Iran, India, Mali:
\* Iran and India match at 0 and Iran is shorter, Mali matches at 3
C5_Witness ==
    /\ Returned("searchByName")
    /\ call.arg = <<73>>
    /\ Len(countries) = 3
    /\ countries[1].alpha2 = <<73,78>>
    /\ countries[2].alpha2 = <<77,76>>
    /\ countries[3].alpha2 = <<73,82>>
    /\ result = <<countries[3], countries[1], countries[2]>>

(***************************************************************************)
(* C6.  getCountryByName returns undefined on the empty string, otherwise  *)
(* the first record in dataset order whose name equals the input up to     *)
(* case, and undefined when there is none (so a proper fragment of a name  *)
(* that is no name finds nothing); inputs that differ only in case return  *)
(* the same record.                                                        *)
(***************************************************************************)
SameName(s, t) == Len(s) = Len(t) /\ \A k \in 1..Len(s) : SameLetter(s[k], t[k])

Named(name) == {i \in 1..Len(countries) : SameName(countries[i].name, name)}

C6_NameIsExactUpToCase ==
    Returned("getCountryByName") =>
        /\ call.arg = <<>> => result = <<>>
        /\ call.arg # <<>> => result = OnlyRecord(Named(call.arg))
        /\ \A c \in CaseVariants(call.arg) : getCountryByName(c) = result

\* getCountryByName("mali") on a dataset that holds MALI and then Mali has returned
\* MALI, the first of the two
C6_Witness ==
    /\ Returned("getCountryByName")
    /\ call.arg = <<109,97,108,105>>
    /\ Cardinality(Named(call.arg)) = 2
    /\ result = <<countries[First(Named(call.arg))]>>
    /\ result[1].name = <<77,65,76,73>>

\* getCountryByName("Ma"), a proper fragment of Mali, has returned undefined
C6_WitnessFragment ==
    /\ Returned("getCountryByName")
    /\ call.arg = <<77,97>>
    /\ \E i \in 1..Len(countries) : countries[i].name = <<77,97,108,105>>
    /\ result = <<>>

(***************************************************************************)
(* C7.  No query changes the dataset, the three code indexes or the search *)
(* index, the order of its entries included.                               *)
(***************************************************************************)
C7_QueriesDoNotMutate ==
    [][UNCHANGED <<rawCountries, countries, alpha2Map, alpha3Map, numericMap,
                   searchIndex>>]_vars

\* searchByName has returned the records in another order than the dataset's, and
\* the search index is in dataset order
C7_Witness ==
    /\ Returned("searchByName")
    /\ Len(result) >= 2
    /\ DatasetPos(result[1]) > DatasetPos(result[2])
    /\ searchIndex = BuildSearchIndex(countries)

(***************************************************************************)
(* C8.  getFlagEmoji of a code of two letters is two codepoints, the i-th  *)
(* being 127397 plus the code of the i-th letter in upper case, a regional *)
(* indicator; both spellings of the code give the same flag; the flag of   *)
(* every record is getFlagEmoji of its alpha2.                             *)
(***************************************************************************)
UpperCode(c) == IF c >= 97 THEN c - 32 ELSE c

C8_FlagDerivation ==
    /\ Returned("getFlagEmoji") =>
           /\ Len(result) = 2
           /\ \A i \in 1..2 :
                  /\ result[i] = 127397 + UpperCode(call.arg[i])
                  /\ result[i] \in 127462..127487
           /\ \A c \in CaseVariants(call.arg) : getFlagEmoji(c) = result
    /\ \A i \in 1..Len(countries) :
           /\ countries[i].flag = getFlagEmoji(countries[i].alpha2)
           /\ countries[i].flag = <<127397 + countries[i].alpha2[1],
                                    127397 + countries[i].alpha2[2]>>

\* getFlagEmoji("tw") has returned the regional indicators T, W
C8_Witness ==
    /\ Returned("getFlagEmoji")
    /\ call.arg = <<116,119>>
    /\ result = <<127481, 127484>>

(***************************************************************************)
(* C9.  searchByName is stable: two results with the same match position   *)
(* and the same name length come in the order they have in the dataset.    *)
(***************************************************************************)
Tied(a, b, q) ==
    /\ MatchPos(a.name, q) = MatchPos(b.name, q)
    /\ Len(a.name) = Len(b.name)

C9_SearchIsStable ==
    (Returned("searchByName") /\ call.arg # <<>>) =>
        \A i, j \in 1..Len(result) :
            (i < j /\ Tied(result[i], result[j], call.arg)) =>
                DatasetPos(result[i]) < DatasetPos(result[j])

\* searchByName("a") on the dataset Iraq, Mali, Iran has returned Mali, Iraq, Iran:
\* the sort has moved Mali to the front and kept Iraq before Iran, which are tied
C9_Witness ==
    /\ Returned("searchByName")
    /\ call.arg = <<97>>
    /\ Len(countries) = 3
    /\ countries[1].alpha2 = <<73,81>>
    /\ countries[3].alpha2 = <<73,82>>
    /\ result = <<countries[2], countries[1], countries[3]>>
    /\ Tied(result[2], result[3], call.arg)

(***************************************************************************)
(* C10.  When records share a key, the index maps the key to the record    *)
(* that is last in the dataset, the lookup by the key returns that record, *)
(* and the indexes are built all the same.                                 *)
(***************************************************************************)
LastRecord(S) == IF S = {} THEN <<>> ELSE <<countries[Last(S)]>>

C10_IndexIsLastWins ==
    /\ \A i \in 1..Len(countries) :
           /\ MapGet(alpha2Map, countries[i].alpha2)
                  = LastRecord(RecordsWith("alpha2", countries[i].alpha2))
           /\ MapGet(alpha3Map, countries[i].alpha3)
                  = LastRecord(RecordsWith("alpha3", countries[i].alpha3))
           /\ MapGet(numericMap, countries[i].numeric)
                  = LastRecord(RecordsWith("numeric", countries[i].numeric))
    /\ Returned("getCountryByAlpha2") =>
           result = LastRecord(RecordsWith("alpha2", toUpperCase(call.arg)))
    /\ Returned("getCountryByAlpha3") =>
           result = LastRecord(RecordsWith("alpha3", toUpperCase(call.arg)))
    /\ Returned("getCountryByNumeric") =>
           result = LastRecord(RecordsWith("numeric", call.arg))

\* Mali and Sudan share the numeric code 466, Mali first: getCountryByNumeric("466")
\* has returned Sudan
C10_Witness ==
    /\ Returned("getCountryByNumeric")
    /\ call.arg = <<52,54,54>>
    /\ Cardinality(RecordsWith("numeric", call.arg)) = 2
    /\ result # <<countries[First(RecordsWith("numeric", call.arg))]>>
    /\ result = <<countries[Last(RecordsWith("numeric", call.arg))]>>
    /\ result[1].name = <<83,117,100,97,110>>

=============================================================================
